---- MODULE Spec2Model ----
(***************************************************************************)
(* Model of src/chain/chain-den-graph.cc (Kaldi 'chain' denominator graph):*)
(* the DenominatorGraph constructor (SetTransitions, SetInitialProbs,      *)
(* ComputeSpecialState) and the free function NumStatesThatCanReach.       *)
(*                                                                         *)
(* Numbers.  double/float values are modelled in fixed point: the integer  *)
(* v stands for v / ONE.  Two IEEE values that the code can produce and    *)
(* that no finite number stands for are kept as the sentinels Inf and NaN. *)
(* Weights of the automaton (negative-log domain) are multiples of ln 2,   *)
(* the integer w standing for w * ln 2, so that exp(-w) = 2^-w; the weight *)
(* Inf is TropicalWeight::Zero(), the final weight of a non-final state.   *)
(* Division of a double by 0.0 gives infinity and 0 * infinity gives NaN,  *)
(* as on every IEEE 754 build.  avg_prob is all NaN or all numbers, so the *)
(* comparison of the pairs sorted in ComputeSpecialState is always a       *)
(* strict weak ordering and std::sort has one outcome.                     *)
(*                                                                         *)
(* KALDI_ASSERT is taken as compiled in (no NDEBUG): a failed assertion    *)
(* ends the constructor or the call, as does KALDI_ERR.                    *)
(***************************************************************************)
EXTENDS Integers, Sequences, FiniteSets, TLC

VARIABLES fst, num_pdfs, pc, err,
          transitions_, forward_transitions_, backward_transitions_,
          initial_probs_, special_hmm_state_,
          dest_state, can_reach, queue, num_states_can_reach, rpc

vars == <<fst, num_pdfs, pc, err,
          transitions_, forward_transitions_, backward_transitions_,
          initial_probs_, special_hmm_state_,
          dest_state, can_reach, queue, num_states_can_reach, rpc>>

ctorVars == <<num_pdfs, pc, err,
              transitions_, forward_transitions_, backward_transitions_,
              initial_probs_, special_hmm_state_>>

reachVars == <<dest_state, can_reach, queue, num_states_can_reach, rpc>>

----------------------------------------------------------------------------
(* Bounds of the inputs.                                                   *)

\* the automata drawn have at most MaxSize states and arcs together
MaxSize == 5

\* the arc labels drawn are 0 .. MaxLabel, and num_pdfs is 1 .. MaxLabel
MaxLabel == 2

----------------------------------------------------------------------------
(* Floating point.                                                         *)

ONE == 10000

Inf == 1000000000

NaN == 1000000001

num_iters == 100

IsNum(a) == a # NaN /\ a # Inf

FAdd(a, b) ==
  IF a = NaN \/ b = NaN THEN NaN
  ELSE IF a = Inf \/ b = Inf THEN Inf
  ELSE a + b

FMul(a, b) ==
  IF a = NaN \/ b = NaN THEN NaN
  ELSE IF a = Inf \/ b = Inf
       THEN (IF a = 0 \/ b = 0 THEN NaN ELSE Inf)
  ELSE (a * b + ONE \div 2) \div ONE

\* 1.0 / a
FRecip(a) ==
  IF a = NaN THEN NaN
  ELSE IF a = Inf THEN 0
  ELSE IF a = 0 THEN Inf
  ELSE (ONE * ONE + a \div 2) \div a

\* a < b on floating-point values: false as soon as one side is NaN
FLess(a, b) == a # NaN /\ b # NaN /\ a < b

FNeg(a) == IF a = NaN THEN NaN ELSE 0 - a

RECURSIVE Pow2(_)
Pow2(k) == IF k = 0 THEN 1 ELSE 2 * Pow2(k - 1)

\* exp(-w) of a weight w (in units of ln 2)
ExpNeg(w) == IF w = Inf THEN 0 ELSE ONE \div Pow2(w)

----------------------------------------------------------------------------
(* The automaton, fst::StdVectorFst: states 0..num_states-1, a start       *)
(* state, a final weight per state and a list of arcs per state.           *)

States(f) == 0 .. (f.num_states - 1)

NumStates(f) == f.num_states

NumArcs(f, s) == Len(f.arcs[s])

RECURSIVE SumSeq(_, _)
SumSeq(sq, i) == IF i > Len(sq) THEN 0 ELSE FAdd(sq[i], SumSeq(sq, i + 1))

RECURSIVE SumVec(_, _, _)
SumVec(v, s, n) == IF s >= n THEN 0 ELSE FAdd(v[s], SumVec(v, s + 1, n))

RECURSIVE Concat(_, _, _)
Concat(buckets, s, n) ==
  IF s >= n THEN <<>> ELSE buckets[s] \o Concat(buckets, s + 1, n)

----------------------------------------------------------------------------
(* DenominatorGraph::SetTransitions                                        *)

\* the DenominatorGraphTransition made from an arc; hs is its hmm_state
Transition(arc, hs) ==
  [transition_prob |-> ExpNeg(arc.weight),
   pdf_id          |-> arc.ilabel - 1,
   hmm_state       |-> hs]

\* (a variant of PdfIdsInRange: the upper bound of the assertion off by one)
PdfIdsInRangeOffByOne(f, npdfs) ==
  \A s \in States(f) : \A i \in 1 .. NumArcs(f, s) :
    f.arcs[s][i].ilabel - 1 >= 0 /\ f.arcs[s][i].ilabel - 1 <= npdfs

\* KALDI_ASSERT(transition.pdf_id >= 0 && transition.pdf_id < num_pdfs)
\* holds for every arc
PdfIdsInRange(f, npdfs) ==
  \A s \in States(f) : \A i \in 1 .. NumArcs(f, s) :
    f.arcs[s][i].ilabel - 1 >= 0 /\ f.arcs[s][i].ilabel - 1 < npdfs

TransitionsOut(f) ==
  [s \in States(f) |->
     [i \in 1 .. NumArcs(f, s) |->
        Transition(f.arcs[s][i], f.arcs[s][i].nextstate)]]

\* (a variant of InFrom: line 68 left out, hmm_state still the next state)
InFromNotReversed(f, s, d) ==
  LET sel == SelectSeq(f.arcs[s], LAMBDA a : a.nextstate = d)
  IN  [i \in 1 .. Len(sel) |-> Transition(sel[i], sel[i].nextstate)]

\* the reverse transitions that the arcs of s push to transitions_in[d]
InFrom(f, s, d) ==
  LET sel == SelectSeq(f.arcs[s], LAMBDA a : a.nextstate = d)
  IN  [i \in 1 .. Len(sel) |-> Transition(sel[i], s)]

TransitionsIn(f) ==
  [d \in States(f) |->
     Concat([s \in States(f) |-> InFrom(f, s, d)], 0, NumStates(f))]

\* transitions.size() after the buckets of the states below s were inserted
RECURSIVE SizeBefore(_, _)
SizeBefore(buckets, s) ==
  IF s = 0 THEN 0 ELSE SizeBefore(buckets, s - 1) + Len(buckets[s - 1])

\* the Int32Pair ranges of the buckets, inserted from offset base on
Ranges(buckets, base, n) ==
  [s \in 0 .. (n - 1) |->
     [first  |-> base + SizeBefore(buckets, s),
      second |-> base + SizeBefore(buckets, s) + Len(buckets[s])]]

FlatTransitions(f) ==
  Concat(TransitionsOut(f), 0, NumStates(f))
    \o Concat(TransitionsIn(f), 0, NumStates(f))

ForwardRanges(f) == Ranges(TransitionsOut(f), 0, NumStates(f))

\* (a variant of BackwardRanges: offsets counted from the first backward
\* record instead of the start of the array)
BackwardRangesFromZero(f) == Ranges(TransitionsIn(f), 0, NumStates(f))

BackwardRanges(f) ==
  Ranges(TransitionsIn(f),
         Len(Concat(TransitionsOut(f), 0, NumStates(f))), NumStates(f))

SetTransitions ==
  /\ pc = "ctor"
  /\ IF PdfIdsInRange(fst, num_pdfs)
     THEN /\ forward_transitions_' = ForwardRanges(fst)
          /\ backward_transitions_' = BackwardRanges(fst)
          /\ transitions_' = FlatTransitions(fst)
          /\ pc' = "transitions_set"
          /\ err' = err
     ELSE /\ pc' = "aborted"
          /\ err' = "assert_pdf_id"
          /\ UNCHANGED <<forward_transitions_, backward_transitions_,
                         transitions_>>
  /\ UNCHANGED <<fst, num_pdfs, initial_probs_, special_hmm_state_>>
  /\ UNCHANGED reachVars

----------------------------------------------------------------------------
(* NumStatesThatCanReach                                                   *)

\* reverse_transitions[d]: the source of every arc into d, in arc order
ReverseTransitions(f) ==
  [d \in States(f) |->
     Concat([s \in States(f) |->
               LET sel == SelectSeq(f.arcs[s], LAMBDA a : a.nextstate = d)
               IN  [i \in 1 .. Len(sel) |-> s]],
            0, NumStates(f))]

\* (a variant of ReachInit: line 155 left out, dest_state not marked)
ReachInitUnmarked(f, d) ==
  [can_reach |-> [s \in States(f) |-> FALSE],
   queue     |-> <<d>>,
   num       |-> 1]

\* lines 155-157
ReachInit(f, d) ==
  [can_reach |-> [s \in States(f) |-> s = d],
   queue     |-> <<d>>,
   num       |-> 1]

\* the for loop of lines 163-170 over rt, from position i on
RECURSIVE ReachVisit(_, _, _)
ReachVisit(rt, i, st) ==
  IF i > Len(rt) THEN st
  ELSE ReachVisit(rt, i + 1,
         IF st.can_reach[rt[i]] THEN st
         ELSE [can_reach |-> [st.can_reach EXCEPT ![rt[i]] = TRUE],
               queue     |-> Append(st.queue, rt[i]),
               num       |-> st.num + 1])

\* one turn of the while loop of lines 158-171
ReachStep(f, st) ==
  LET state == st.queue[Len(st.queue)]
      popped == [st EXCEPT !.queue = SubSeq(st.queue, 1, Len(st.queue) - 1)]
  IN  ReachVisit(ReverseTransitions(f)[state], 1, popped)

RECURSIVE ReachLoop(_, _)
ReachLoop(f, st) ==
  IF st.queue = <<>> THEN st ELSE ReachLoop(f, ReachStep(f, st))

NumStatesThatCanReach(f, d) == ReachLoop(f, ReachInit(f, d)).num

\* a call NumStatesThatCanReach(fst, dest_state) up to its while loop
ReachCall ==
  /\ rpc = "idle"
  /\ IF dest_state >= 0 /\ dest_state < NumStates(fst)
     THEN /\ can_reach' = ReachInit(fst, dest_state).can_reach
          /\ queue' = ReachInit(fst, dest_state).queue
          /\ num_states_can_reach' = ReachInit(fst, dest_state).num
          /\ rpc' = "loop"
     ELSE /\ rpc' = "aborted"
          /\ UNCHANGED <<can_reach, queue, num_states_can_reach>>
  /\ UNCHANGED <<fst, dest_state>>
  /\ UNCHANGED ctorVars

\* one turn of its while loop
ReachLoopStep ==
  /\ rpc = "loop"
  /\ queue # <<>>
  /\ LET st == ReachStep(fst, [can_reach |-> can_reach, queue |-> queue,
                               num |-> num_states_can_reach])
     IN  /\ can_reach' = st.can_reach
         /\ queue' = st.queue
         /\ num_states_can_reach' = st.num
  /\ UNCHANGED <<fst, dest_state, rpc>>
  /\ UNCHANGED ctorVars

\* the end of the loop, the assertion of lines 172-173 and the return
ReachReturn ==
  /\ rpc = "loop"
  /\ queue = <<>>
  /\ rpc' = IF num_states_can_reach >= 1
               /\ num_states_can_reach <= NumStates(fst)
            THEN "returned" ELSE "aborted"
  /\ UNCHANGED <<fst, dest_state, can_reach, queue, num_states_can_reach>>
  /\ UNCHANGED ctorVars

----------------------------------------------------------------------------
(* DenominatorGraph::ComputeSpecialState                                   *)

\* operator< of std::pair<BaseFloat, int32>
PairLess(a, b) ==
  FLess(a[1], b[1]) \/ (~FLess(b[1], a[1]) /\ a[2] < b[2])

\* x put into the sorted sequence sq, before the first element greater than x
RECURSIVE InsertPair(_, _, _)
InsertPair(sq, x, i) ==
  IF i > Len(sq) THEN Append(sq, x)
  ELSE IF PairLess(x, sq[i])
       THEN SubSeq(sq, 1, i - 1) \o <<x>> \o SubSeq(sq, i, Len(sq))
       ELSE InsertPair(sq, x, i + 1)

\* std::sort(pairs.begin(), pairs.end())
RECURSIVE SortPairs(_, _)
SortPairs(sq, k) ==
  IF k = 0 THEN <<>> ELSE InsertPair(SortPairs(sq, k - 1), sq[k], 1)

\* (a variant of Pairs: the initial probability not negated)
PairsNotNegated(probs, n) ==
  [i \in 1 .. n |-> <<0, 0>>]
    \o [i \in 1 .. n |-> <<probs[i - 1], i - 1>>]

\* lines 182-184: num_states value-initialised pairs (0.0, 0), and then one
\* pair pushed back per state
Pairs(probs, n) ==
  [i \in 1 .. n |-> <<0, 0>>]
    \o [i \in 1 .. n |-> <<FNeg(probs[i - 1]), i - 1>>]

\* int32 min_states_can_reach = 0.75 * num_states
MinStatesCanReach(n) == (3 * n) \div 4

\* the loop of lines 195-206 from position i (0-based) on; the result is
\* the state returned, or -1 when the loop ends and KALDI_ERR throws
RECURSIVE ScanPairs(_, _, _, _)
ScanPairs(f, sorted, i, n) ==
  IF i >= n THEN -1
  ELSE IF NumStatesThatCanReach(f, sorted[i + 1][2]) < MinStatesCanReach(n)
       THEN ScanPairs(f, sorted, i + 1, n)
       ELSE sorted[i + 1][2]

ComputeSpecialState(f, probs) ==
  LET n == NumStates(f)
      sorted == SortPairs(Pairs(probs, n), 2 * n)
  IN  ScanPairs(f, sorted, 0, n)

----------------------------------------------------------------------------
(* DenominatorGraph::SetInitialProbs                                       *)

\* tot_prob of lines 108-112
TotProb(f, s) ==
  FAdd(ExpNeg(f.final[s]),
       SumSeq([i \in 1 .. NumArcs(f, s) |-> ExpNeg(f.arcs[s][i].weight)], 1))

\* KALDI_ASSERT(tot_prob > 0.0 && tot_prob < 100.0) holds for every state
TotProbsPlausible(f) ==
  \A s \in States(f) : TotProb(f, s) > 0 /\ TotProb(f, s) < 100 * ONE

\* lines 106-115, from state s on
RECURSIVE SetNormalizingFactor(_, _, _)
SetNormalizingFactor(f, nf, s) ==
  IF s >= NumStates(f) THEN nf
  ELSE SetNormalizingFactor(f, [nf EXCEPT ![s] = FRecip(TotProb(f, s))], s + 1)

NormalizingFactor(f) == SetNormalizingFactor(f, [s \in States(f) |-> 0], 0)

\* the arcs of the automaton in the order the loops over the states and
\* their arcs visit them, each with its source and exp(-arc.weight.Value())
ArcSeq(f) ==
  Concat([s \in States(f) |->
            [i \in 1 .. NumArcs(f, s) |->
               <<s, f.arcs[s][i].nextstate, ExpNeg(f.arcs[s][i].weight)>>]],
         0, NumStates(f))

\* lines 121-129 from the i-th arc on:
\* next_prob(arc.nextstate) += cur_prob(s) * normalizing_factor(s) * exp(-w)
RECURSIVE NextProb(_, _, _, _, _)
NextProb(arcs, nf, cur, next, i) ==
  IF i > Len(arcs) THEN next
  ELSE NextProb(arcs, nf, cur,
         [next EXCEPT ![arcs[i][2]] =
            FAdd(@, FMul(FMul(cur[arcs[i][1]], nf[arcs[i][1]]), arcs[i][3]))],
         i + 1)

\* v.Scale(alpha), from state s on
RECURSIVE Scale(_, _, _, _)
Scale(v, alpha, s, n) ==
  IF s >= n THEN v
  ELSE Scale([v EXCEPT ![s] = FMul(@, alpha)], alpha, s + 1, n)

\* avg.AddVec(1.0 / num_iters, v), from state s on.  avg is kept in units of
\* 1 / (ONE * num_iters), in which (1.0 / num_iters) * v is the integer of v.
RECURSIVE AddVec(_, _, _, _)
AddVec(avg, v, s, n) ==
  IF s >= n THEN avg
  ELSE AddVec([avg EXCEPT ![s] = FAdd(@, v[s])], v, s + 1, n)

ZeroVec(n) == [s \in 0 .. (n - 1) |-> 0]

\* (a variant of Iteration: the average taken of cur_prob before the
\* propagation, the start distribution included)
IterationAveragingFirst(arcs, nf, st, n) ==
  LET next == NextProb(arcs, nf, st.cur, ZeroVec(n), 1)
      cur == Scale(next, FRecip(SumVec(next, 0, n)), 0, n)
  IN  [iter |-> st.iter + 1, cur |-> cur,
       avg |-> AddVec(st.avg, st.cur, 0, n)]

\* one iteration of lines 120-136
Iteration(arcs, nf, st, n) ==
  LET next == NextProb(arcs, nf, st.cur, ZeroVec(n), 1)
      cur == Scale(next, FRecip(SumVec(next, 0, n)), 0, n)
  IN  [iter |-> st.iter + 1, cur |-> cur, avg |-> AddVec(st.avg, cur, 0, n)]

\* avg_prob after the loop of lines 120-136, from
\* cur_prob(fst.Start()) = 1.0.  Iterate(k, st) is st after k more
\* iterations (k >= 1) or at iter = num_iters, the first half of them and
\* then the second half.
AvgProb(f) ==
  LET arcs == ArcSeq(f)
      nf == NormalizingFactor(f)
      n == NumStates(f)
      RECURSIVE Iterate(_, _)
      Iterate(k, st) ==
        IF st.iter >= num_iters THEN st
        ELSE IF k = 1 THEN Iteration(arcs, nf, st, n)
        ELSE Iterate(k - k \div 2, Iterate(k \div 2, st))
  IN  Iterate(num_iters,
              [iter |-> 0,
               cur  |-> [ZeroVec(n) EXCEPT ![f.start] = ONE],
               avg  |-> ZeroVec(n)]).avg

\* Vector<BaseFloat> avg_prob_float(avg_prob): double to float, to the
\* nearest value in units of 1 / ONE
ToFloat(a) ==
  IF a = NaN THEN NaN ELSE (a + num_iters \div 2) \div num_iters

SetInitialProbs ==
  /\ pc = "transitions_set"
  /\ IF ~TotProbsPlausible(fst)
     THEN /\ pc' = "aborted"
          /\ err' = "assert_tot_prob"
          /\ UNCHANGED <<initial_probs_, special_hmm_state_>>
     ELSE /\ initial_probs_' =
               LET avg_prob == AvgProb(fst)
               IN  [s \in States(fst) |-> ToFloat(avg_prob[s])]
          /\ LET special == ComputeSpecialState(fst, initial_probs_')
             IN  IF special = -1
                 THEN /\ pc' = "aborted"
                      /\ err' = "no_special_state"
                      /\ UNCHANGED special_hmm_state_
                 ELSE /\ pc' = "done"
                      /\ err' = err
                      /\ special_hmm_state_' = special
  /\ UNCHANGED <<fst, num_pdfs, forward_transitions_, backward_transitions_,
                 transitions_>>
  /\ UNCHANGED reachVars

----------------------------------------------------------------------------
(* The inputs: the automaton fst, num_pdfs and dest_state.                 *)

Labels == 0 .. MaxLabel

ArcWeights == {0, 1}

FinalWeights == {0, Inf}

ArcOptions(n, labels, weights) ==
  [src : 0 .. (n - 1), ilabel : labels, weight : weights,
   nextstate : 0 .. (n - 1)]

\* the arcs of an automaton of n states, listed in the order of its states
ArcLists(n, labels, weights) ==
  {flat \in UNION {[1 .. k -> ArcOptions(n, labels, weights)]
                   : k \in 0 .. (MaxSize - n)} :
     \A i \in 1 .. (Len(flat) - 1) : flat[i].src <= flat[i + 1].src}

\* among the arcs of one state: by weight, then by next state
IsArcSorted(flat) ==
  \A i \in 1 .. (Len(flat) - 1) :
    flat[i].src = flat[i + 1].src =>
      \/ flat[i].weight < flat[i + 1].weight
      \/ /\ flat[i].weight = flat[i + 1].weight
         /\ flat[i].nextstate <= flat[i + 1].nextstate

MakeFst(n, start, final, flat) ==
  [num_states |-> n,
   start      |-> start,
   final      |-> final,
   arcs       |-> [s \in 0 .. (n - 1) |->
                     LET sel == SelectSeq(flat, LAMBDA a : a.src = s)
                     IN  [i \in 1 .. Len(sel) |->
                            [ilabel    |-> sel[i].ilabel,
                             weight    |-> sel[i].weight,
                             nextstate |-> sel[i].nextstate]]]]

\* the object before its constructor ran
Unconstructed ==
  /\ pc = "ctor"
  /\ err = "none"
  /\ transitions_ = <<>>
  /\ forward_transitions_ = <<>>
  /\ backward_transitions_ = <<>>
  /\ initial_probs_ = <<>>
  /\ special_hmm_state_ = -1

\* no call of NumStatesThatCanReach
NoCall ==
  /\ dest_state = 0
  /\ can_reach = <<>>
  /\ queue = <<>>
  /\ num_states_can_reach = 0
  /\ rpc = "idle"

\* automata whose arcs all carry the label 1, with any weights, final
\* weights and start state; the arcs of a state come sorted
Init ==
  /\ \E n \in 1 .. (MaxSize - 1) :
       \E start \in 0 .. (n - 1) :
         \E final \in [0 .. (n - 1) -> FinalWeights] :
           \E flat \in ArcLists(n, {1}, ArcWeights) :
             /\ IsArcSorted(flat)
             /\ fst = MakeFst(n, start, final, flat)
  /\ num_pdfs = 1
  /\ Unconstructed
  /\ NoCall

\* automata with any labels and in any arc order, all states final, all
\* weights 0, state 0 the start
InitT ==
  /\ \E n \in 1 .. (MaxSize - 1) :
       \E flat \in ArcLists(n, Labels, {0}) :
         fst = MakeFst(n, 0, [s \in 0 .. (n - 1) |-> 0], flat)
  /\ num_pdfs \in 1 .. MaxLabel
  /\ Unconstructed
  /\ NoCall

\* automata of any shape, and any dest_state, also just out of range
InitR ==
  /\ \E n \in 1 .. (MaxSize - 1) :
       /\ \E flat \in ArcLists(n, {1}, {0}) :
            fst = MakeFst(n, 0, [s \in 0 .. (n - 1) |-> 0], flat)
       /\ dest_state \in -1 .. n
  /\ num_pdfs = 1
  /\ Unconstructed
  /\ can_reach = <<>>
  /\ queue = <<>>
  /\ num_states_can_reach = 0
  /\ rpc = "idle"

Next == SetTransitions \/ SetInitialProbs

NextR == ReachCall \/ ReachLoopStep \/ ReachReturn

Spec == Init /\ [][Next]_vars

SpecT == InitT /\ [][Next]_vars

\* the call runs on: nothing else is scheduled
SpecR == InitR /\ [][NextR]_vars /\ WF_vars(NextR)

----------------------------------------------------------------------------
(* What the claims speak of, stated on the automaton itself.               *)

NumArcsTotal(f) == SizeBefore(f.arcs, NumStates(f))

\* the states an arc of s leads to
Successors(f, s) == {f.arcs[s][i].nextstate : i \in 1 .. NumArcs(f, s)}

\* the states reached from those of S along zero or more arcs
RECURSIVE ForwardClosure(_, _)
ForwardClosure(f, S) ==
  LET T == S \cup UNION {Successors(f, s) : s \in S}
  IN  IF T = S THEN S ELSE ForwardClosure(f, T)

\* the states s with s = d or a path of one or more arcs from s to d
StatesThatCanReach(f, d) ==
  {s \in States(f) : d \in ForwardClosure(f, {s})}

StronglyConnected(f) ==
  \A s \in States(f) : ForwardClosure(f, {s}) = States(f)

\* the states joined to those of S by arcs taken in either direction
RECURSIVE Component(_, _)
Component(f, S) ==
  LET T == S \cup UNION {Successors(f, s) : s \in S}
             \cup {s \in States(f) : Successors(f, s) \cap S # {}}
  IN  IF T = S THEN S ELSE Component(f, T)

\* two components of equal size, no arc between them
TwoEqualComponents(f) ==
  LET comps == {Component(f, {s}) : s \in States(f)}
  IN  /\ Cardinality(comps) = 2
      /\ \A c \in comps : 2 * Cardinality(c) = NumStates(f)

\* SetTransitions ran to its end
TablesBuilt == pc # "ctor" /\ err # "assert_pdf_id"

\* SetInitialProbs got to assign initial_probs_ and to select the special state
ProbsSet == pc = "done" \/ err = "no_special_state"

\* ... and no initial probability is NaN
ProbsAreNumbers ==
  ProbsSet /\ \A s \in States(fst) : IsNum(initial_probs_[s])

\* the number of records of transitions_ at the 0-based offsets first ..
\* second - 1 that carry pdf_id p and hmm_state h
RecordsIn(range, p, h) ==
  Cardinality({i \in range.first .. (range.second - 1) :
                 /\ i + 1 \in DOMAIN transitions_
                 /\ transitions_[i + 1].pdf_id = p
                 /\ transitions_[i + 1].hmm_state = h})

\* the number of arcs from s to d with label l
ArcsBetween(f, s, d, l) ==
  Cardinality({i \in 1 .. NumArcs(f, s) :
                 f.arcs[s][i].nextstate = d /\ f.arcs[s][i].ilabel = l})

InDegree(f, d) ==
  Cardinality({<<s, i>> \in States(f) \X (1 .. NumArcsTotal(f)) :
                 i <= NumArcs(f, s) /\ f.arcs[s][i].nextstate = d})

----------------------------------------------------------------------------
(* The claims.                                                             *)

\* C1: after SetTransitions, the records in forward[s] are, as a multiset,
\* one record {label - 1, destination} per out-arc of s, and the records in
\* backward[s] one record {label - 1, source} per arc into s: nothing
\* missing, nothing extra.
C1_RangesHoldTheArcs ==
  TablesBuilt =>
    \A s \in States(fst) :
      /\ forward_transitions_[s].second - forward_transitions_[s].first
           = NumArcs(fst, s)
      /\ backward_transitions_[s].second - backward_transitions_[s].first
           = InDegree(fst, s)
      /\ \A h \in States(fst) : \A l \in Labels :
           /\ RecordsIn(forward_transitions_[s], l - 1, h)
                = ArcsBetween(fst, s, h, l)
           /\ RecordsIn(backward_transitions_[s], l - 1, h)
                = ArcsBetween(fst, h, s, l)

\* C1 witness: tables built for an automaton with a self-loop and with two
\* parallel arcs between different states
C1_Witness ==
  /\ TablesBuilt
  /\ \E s \in States(fst) : \E l \in Labels : ArcsBetween(fst, s, s, l) = 1
  /\ \E s, d \in States(fst) : \E l \in Labels :
       s # d /\ ArcsBetween(fst, s, d, l) = 2

\* C2: the flat array has 2E records; the forward ranges are contiguous in
\* state order and cover [0, E), the backward ranges cover [E, 2E).
C2_RangesTile ==
  TablesBuilt =>
    LET n == NumStates(fst)
        E == NumArcsTotal(fst)
        fw == forward_transitions_
        bw == backward_transitions_
    IN  /\ Len(transitions_) = 2 * E
        /\ fw[0].first = 0
        /\ fw[n - 1].second = E
        /\ bw[0].first = E
        /\ bw[n - 1].second = 2 * E
        /\ \A s \in States(fst) :
             /\ fw[s].first <= fw[s].second
             /\ bw[s].first <= bw[s].second
             /\ s + 1 < n => /\ fw[s].second = fw[s + 1].first
                             /\ bw[s].second = bw[s + 1].first

\* C2 witness: tables built for three arcs, with an empty forward range and
\* an empty backward range between non-empty ones
C2_Witness ==
  /\ TablesBuilt
  /\ NumArcsTotal(fst) = 3
  /\ NumStates(fst) = 2
  /\ forward_transitions_[0].first = forward_transitions_[0].second
  /\ backward_transitions_[1].first = backward_transitions_[1].second

\* C3: for every automaton and every state d, NumStatesThatCanReach(fst, d)
\* terminates, and returns the number of states s with s = d or a path from
\* s to d: at least 1, at most the number of states, and the number of
\* states when the automaton is strongly connected.
C3_CountsTheStatesThatCanReach ==
  /\ [](rpc = "returned" =>
          /\ num_states_can_reach
               = Cardinality(StatesThatCanReach(fst, dest_state))
          /\ num_states_can_reach >= 1
          /\ num_states_can_reach <= NumStates(fst)
          /\ StronglyConnected(fst) =>
               num_states_can_reach = NumStates(fst))
  /\ [](dest_state \in States(fst) => <>(rpc = "returned"))

\* C3 witness: a call returned 2 of 3 states, for a destination on a
\* self-loop that another state has an arc to
C3_Witness ==
  /\ rpc = "returned"
  /\ NumStates(fst) = 3
  /\ num_states_can_reach = 2
  /\ dest_state \in Successors(fst, dest_state)
  /\ \E s \in States(fst) :
       s # dest_state /\ dest_state \in Successors(fst, s)

\* the selector's test of a state: its count meets min_states_can_reach
PassesTest(f, s) ==
  Cardinality(StatesThatCanReach(f, s)) >= MinStatesCanReach(NumStates(f))

\* C4: ComputeSpecialState ends in the no-anchor-found error only if no
\* state of the automaton meets the reachability threshold, a state of
\* initial probability zero included.  (Stated for initial probabilities
\* that are numbers, which leaves the NaN of C6 out of it.)
C4_ErrorOnlyIfNoStatePasses ==
  (ProbsAreNumbers /\ err = "no_special_state") =>
    \A s \in States(fst) : ~PassesTest(fst, s)

\* C5: a state r returned by ComputeSpecialState is the first one, by
\* initial probability descending and state index ascending, that passes
\* the selector's reachability test.
C5_FirstPassingCandidate ==
  pc = "done" =>
    LET r == special_hmm_state_
        p == initial_probs_
    IN  /\ r \in States(fst)
        /\ PassesTest(fst, r)
        /\ \A s \in States(fst) :
             /\ FLess(p[r], p[s]) => ~PassesTest(fst, s)
             /\ (s < r /\ ~FLess(p[s], p[r]) /\ ~FLess(p[r], p[s]))
                  => ~PassesTest(fst, s)

\* C5 witness: a state was returned although another one has a strictly
\* greater initial probability
C5_Witness ==
  /\ pc = "done"
  /\ \E s \in States(fst) :
       FLess(initial_probs_[special_hmm_state_], initial_probs_[s])

\* C6: the initial probabilities that SetInitialProbs produces are all >= 0
\* and sum to 1 (here: to within a thousandth), for every automaton whose
\* states all have a plausible total mass.
C6_ProbsAreADistribution ==
  ProbsSet =>
    /\ \A s \in States(fst) :
         IsNum(initial_probs_[s]) /\ initial_probs_[s] >= 0
    /\ SumVec(initial_probs_, 0, NumStates(fst)) >= ONE - ONE \div 1000
    /\ SumVec(initial_probs_, 0, NumStates(fst)) <= ONE + ONE \div 1000

\* C7: for an automaton of two components of equal size, special-state
\* selection raises the no-anchor-found error and returns no state.
\* (Stated for initial probabilities that are numbers, as C4.)
C7_TwoComponentsRaise ==
  (ProbsAreNumbers /\ TwoEqualComponents(fst)) => err = "no_special_state"

\* C8: construction aborts on the label assertion, with no table, initial
\* probability or special state ever set, exactly when some arc has a label
\* outside 1 .. num_pdfs.
C8_AbortsExactlyOnBadLabel ==
  LET bad == \E s \in States(fst) : \E i \in 1 .. NumArcs(fst, s) :
               fst.arcs[s][i].ilabel \notin 1 .. num_pdfs
  IN  /\ pc # "ctor" => (bad <=> err = "assert_pdf_id")
      /\ bad =>
           /\ pc \in {"ctor", "aborted"}
           /\ transitions_ = <<>>
           /\ forward_transitions_ = <<>>
           /\ backward_transitions_ = <<>>
           /\ initial_probs_ = <<>>
           /\ special_hmm_state_ = -1

\* C8 witness: the constructor aborted on an arc labelled 0 and on one
\* labelled num_pdfs + 1
C8_Witness ==
  /\ pc = "aborted"
  /\ err = "assert_pdf_id"
  /\ \E s \in States(fst) : \E i \in 1 .. NumArcs(fst, s) :
       fst.arcs[s][i].ilabel = 0
  /\ \E s \in States(fst) : \E i \in 1 .. NumArcs(fst, s) :
       fst.arcs[s][i].ilabel = num_pdfs + 1

\* the automaton of C9: state 0 the start, not final, one arc to state 1;
\* state 1 final with a self-loop; all weights 0
IsTwoStateExample ==
  /\ NumStates(fst) = 2
  /\ fst.start = 0
  /\ fst.final = (0 :> Inf @@ 1 :> 0)
  /\ fst.arcs[0] = <<[ilabel |-> 1, weight |-> 0, nextstate |-> 1]>>
  /\ fst.arcs[1] = <<[ilabel |-> 1, weight |-> 0, nextstate |-> 1]>>

\* C9 as stated: in the two-state automaton state 1 gets the larger share
\* and state 0 keeps a strictly positive mass.
C9_StartKeepsResidualMass ==
  (IsTwoStateExample /\ ProbsSet) =>
    /\ initial_probs_[1] > initial_probs_[0]
    /\ initial_probs_[0] > 0

\* C9 as amended: in the two-state automaton state 1 gets the larger share
\* and state 0 gets exactly 0: the average is taken over the distributions
\* after each propagation step, which the start's mass of 1.0 is not among.
C9_StartKeepsNoMass ==
  (IsTwoStateExample /\ ProbsSet) =>
    /\ initial_probs_[1] > initial_probs_[0]
    /\ initial_probs_[0] = 0

\* C9 witness: the constructor finished on the two-state automaton
C9_Witness == IsTwoStateExample /\ pc = "done" /\ special_hmm_state_ = 1

\* C10: a state r returned by ComputeSpecialState is reachable from at
\* least 0.75 x N of the N states.  (Stated for initial probabilities that
\* are numbers, as C4.)
C10_ReachableFromThreeQuarters ==
  (ProbsAreNumbers /\ pc = "done") =>
    4 * Cardinality(StatesThatCanReach(fst, special_hmm_state_))
      >= 3 * NumStates(fst)

====
